---- MODULE Spec2Model ----
(***************************************************************************)
(* Model of the AI-scheduler services: NotificationService (the timer      *)
(* engine of src/src/services/google-calendar.ts), SchedulerService        *)
(* (src/unnamed/part_001) and GeminiAIService.generateSchedule             *)
(* (src/unnamed/part_000).                                                 *)
(*                                                                         *)
(* Times are instants in milliseconds, as Date.getTime() gives them,       *)
(* counted from the local midnight of the scheduled day.                   *)
(***************************************************************************)
EXTENDS Integers, Sequences, FiniteSets, TLC

VARIABLES
    now,            \* Date.now()
    notifications,  \* NotificationService.notifications : id -> NotificationConfig
    timers,         \* NotificationService.timers : id -> timer handle
    subscribers,    \* NotificationService.subscribers : array of callbacks
    timeouts,       \* the runtime's outstanding setTimeout triggers
    nextTimer,      \* the handle the next setTimeout returns
    listenerUnsub,  \* what each listener callback unsubscribes when it is called
    hist,           \* per notification id: arm cycles and broadcasts so far
    lastFire,       \* the last run of deliverNotification
    waits,          \* number of Wait steps taken
    completion,     \* completion logs, incomplete-task records, handleTaskCompletion calls
    currentSchedule,\* SchedulerService.currentSchedule
    collaborator,   \* how the reasoning collaborator answers: failing or replying
    gen,            \* the generateDailySchedule call in flight or returned
    applyCalls,     \* applySchedule calls suspended at their await
    lastApply,      \* the last applySchedule call that ended
    chat,           \* the handleChatModification calls: in flight, and the last ended
    pack,           \* a direct run of normalizeTasks and generateFallbackSchedule
    detect          \* a run of detectConflicts: its input, the fetch, its result

engineVars == <<now, notifications, timers, subscribers, timeouts, nextTimer,
                listenerUnsub, hist, lastFire, waits, completion>>
schedVars == <<currentSchedule, collaborator, gen, applyCalls, lastApply, chat>>
vars == <<now, notifications, timers, subscribers, timeouts, nextTimer,
          listenerUnsub, hist, lastFire, waits, completion,
          currentSchedule, collaborator, gen, applyCalls, lastApply, chat, pack, detect>>

----------------------------------------------------------------------------
(* Bounds of the model *)

MaxTimers == 4      \* setTimeout calls explored
MaxSubs == 2        \* length of the subscribers array explored
MaxWaits == 1       \* idle waits explored
MaxCourseRows == 2  \* course rows handed to the normalizer
MaxCourseSheetRows == 1 \* rows of the course sheet
MaxPriorityRows == 2    \* priority rows handed to the normalizer
MaxIncompleteRows == 2  \* rows of the incomplete sheet
MaxInFlight == 1    \* applySchedule calls suspended at once
MaxCompletions == 2 \* handleTaskCompletion calls explored
MaxDetectTasks == 2 \* tasks of the schedule handed to detectConflicts
MaxExistingEvents == 2 \* events the calendar holds for the day
MaxChats == 2       \* handleChatModification calls explored

(* Program constants *)

MsPerMinute == 60000
ReminderLeadMinutes == 5
SnoozePayloadMinutes == 5
DefaultRecordDuration == 60
PartialProgress == 50
FeedbackDelay == 1000

TaskIds == {"t1"}
Listeners == {"a", "b"}
None == "none"

\* Start and end times a caller arms, ms after the clock's origin.
StartTimes == {2 * MsPerMinute, 6 * MsPerMinute}
EndTimes == {12 * MsPerMinute}
WaitSteps == {MsPerMinute}

\* The instants at which completion calls are explored.
CompletionInstants == {0} \cup EndTimes

StartId(t) == "start_" \o t
EndId(t) == "end_" \o t
FeedbackId(t, at) == "feedback_" \o t \o "_" \o ToString(at)
\* The ids of the tasks a schedule made from the sheets can hold.
SheetTaskIds == {"incomplete_" \o ToString(i) : i \in 0..(MaxIncompleteRows - 1)}
NIds == {StartId(t) : t \in TaskIds \cup SheetTaskIds}
        \cup {EndId(t) : t \in TaskIds \cup SheetTaskIds}
        \cup {FeedbackId(t, at) : t \in TaskIds, at \in CompletionInstants}

BoundedSeq(S, n) == UNION {[1..k -> S] : k \in 0..n}

Max_Second(a, b) == b

Max(a, b) == IF a > b THEN a ELSE b

NoNotification == [type |-> None]
NoFire == [nid |-> None, h |-> 0, at |-> 0, wasDelivered |-> FALSE,
           broadcast |-> FALSE, subsBefore |-> <<>>, called |-> <<>>,
           removed |-> {}]
NoHist == [arms |-> 0, broadcasts |-> 0, inCycle |-> 0, snoozeTimer |-> 0,
           snoozeDue |-> 0, bcastBy |-> 0, bcastAt |-> 0, cancelArm |-> 0,
           cleanupMark |-> 0]

\* The engine's state as one record, so that a handler's steps compose.
Eng == [notifications |-> notifications, timers |-> timers,
        subscribers |-> subscribers, timeouts |-> timeouts,
        nextTimer |-> nextTimer, hist |-> hist, lastFire |-> lastFire,
        completion |-> completion]

SetEng(e) ==
    /\ notifications' = e.notifications
    /\ timers' = e.timers
    /\ subscribers' = e.subscribers
    /\ timeouts' = e.timeouts
    /\ nextTimer' = e.nextTimer
    /\ hist' = e.hist
    /\ lastFire' = e.lastFire

----------------------------------------------------------------------------
(* Subscription management *)

\* Array.prototype.indexOf: the first 1-based position of l, 0 when absent.
IndexOf(s, l) ==
    IF \E i \in 1..Len(s) : s[i] = l
    THEN CHOOSE i \in 1..Len(s) : s[i] = l /\ \A j \in 1..(i - 1) : s[j] # l
    ELSE 0

\* Array.prototype.splice(index, 1)
Splice(s, i) == [j \in 1..(Len(s) - 1) |-> IF j < i THEN s[j] ELSE s[j + 1]]

\* The closure subscribe() returns: removes the first occurrence of callback.
UnsubscribeFrom(s, l) ==
    IF IndexOf(s, l) > 0 THEN Splice(s, IndexOf(s, l)) ELSE s

\* What calling listener l does to the subscribers array.
CallListener(s, l) ==
    IF listenerUnsub[l] = None THEN s ELSE UnsubscribeFrom(s, listenerUnsub[l])

\* Array.prototype.forEach over the live array: the length is read once, the
\* index k (0-based) advances by one per step and an index no longer present
\* is skipped.
RECURSIVE ForEachSubscriber(_, _, _, _, _)
ForEachSubscriber(s, k, len, called, removed) ==
    IF k >= len THEN [subscribers |-> s, called |-> called, removed |-> removed]
    ELSE IF k + 1 > Len(s) THEN ForEachSubscriber(s, k + 1, len, called, removed)
    ELSE LET l == s[k + 1]
             s2 == CallListener(s, l)
         IN ForEachSubscriber(s2, k + 1, len, Append(called, l),
                IF Len(s2) < Len(s) THEN removed \cup {listenerUnsub[l]} ELSE removed)

notifySubscribers(s) == ForEachSubscriber(s, 0, Len(s), <<>>, {})

----------------------------------------------------------------------------
(* Arming *)

\* setTimeout(callback, delay): a new outstanding trigger for notification nid.
SetTimeout(e, nid, delay) ==
    [e EXCEPT !.timeouts = @ \cup {[h |-> e.nextTimer, nid |-> nid,
                                    due |-> now + delay, delay |-> delay]},
              !.nextTimer = @ + 1]

\* clearTimeout(handle)
ClearTimeout(e, handle) ==
    [e EXCEPT !.timeouts = {x \in @ : x.h # handle}]

\* this.notifications.set(id, n); setTimeout(...); this.timers.set(id, timer)
ArmNotification(e, nid, type, taskId, scheduledTime) ==
    LET delay == Max(0, scheduledTime - now)
        e1 == [e EXCEPT !.notifications[nid] =
                  [type |-> type, taskId |-> taskId,
                   scheduledTime |-> scheduledTime, delivered |-> FALSE]]
        e2 == SetTimeout(e1, nid, delay)
    IN [e2 EXCEPT !.timers[nid] = e.nextTimer,
                  !.hist[nid] = [@ EXCEPT !.arms = @ + 1, !.inCycle = 0,
                                          !.snoozeTimer = 0, !.snoozeDue = 0]]

scheduleTaskStartNotification(e, taskId, startTime) ==
    ArmNotification(e, StartId(taskId), "task_start", taskId,
                    startTime - ReminderLeadMinutes * MsPerMinute)

scheduleTaskEndNotification(e, taskId, endTime) ==
    ArmNotification(e, EndId(taskId), "task_end", taskId, endTime)

----------------------------------------------------------------------------
(* Delivery *)

\* deliverNotification without its check of the delivered flag.
deliverNotification_NoDeliveredCheck(e, nid, h) ==
    LET n == e.notifications[nid]
        fire == [NoFire EXCEPT !.nid = nid, !.h = h, !.at = now,
                               !.wasDelivered = (n # NoNotification /\ n.delivered)]
    IN IF n = NoNotification
       THEN [e EXCEPT !.lastFire = fire]
       ELSE LET r == notifySubscribers(e.subscribers)
            IN [e EXCEPT !.notifications[nid].delivered = TRUE,
                         !.subscribers = r.subscribers,
                         !.hist[nid] = [@ EXCEPT !.broadcasts = @ + 1,
                                                 !.inCycle = @ + 1,
                                                 !.bcastBy = h,
                                                 !.bcastAt = now],
                         !.lastFire = [fire EXCEPT !.broadcast = TRUE,
                                          !.subsBefore = e.subscribers,
                                          !.called = r.called,
                                          !.removed = r.removed]]

\* notification.delivered = true: the registry entry after its delivery.
MarkDelivered_Remove(n) == NoNotification

MarkDelivered(n) == [n EXCEPT !.delivered = TRUE]

deliverNotification(e, nid, h) ==
    LET n == e.notifications[nid]
        fire == [NoFire EXCEPT !.nid = nid, !.h = h, !.at = now,
                               !.wasDelivered = (n # NoNotification /\ n.delivered)]
    IN IF n = NoNotification \/ n.delivered
       THEN [e EXCEPT !.lastFire = fire]
       ELSE LET r == notifySubscribers(e.subscribers)
            IN [e EXCEPT !.notifications[nid] = MarkDelivered(n),
                         !.subscribers = r.subscribers,
                         !.hist[nid] = [@ EXCEPT !.broadcasts = @ + 1,
                                                 !.inCycle = @ + 1,
                                                 !.bcastBy = h,
                                                 !.bcastAt = now],
                         !.lastFire = [fire EXCEPT !.broadcast = TRUE,
                                          !.subsBefore = e.subscribers,
                                          !.called = r.called,
                                          !.removed = r.removed]]

----------------------------------------------------------------------------
(* Notification actions *)

\* x || d for a number x (0 stands for a missing or falsy field)
OrDefault(x, d) == IF x = 0 THEN d ELSE x

\* TaskCompletionData; actualDuration and remainingMinutes are 0 when absent.
Statuses == {"completed", "partially_completed", "not_completed"}
ActualDurations == {0, 90}
RemainingMinutes == {0, 30}
CompletionData == [taskId : TaskIds, status : Statuses,
                   actualDuration : ActualDurations,
                   remainingMinutes : RemainingMinutes]

\* localStorage: usable, or throwing on access (unavailable or full).
StorageStates == {"ok", "throws"}

NoData == [taskId |-> None, status |-> None, actualDuration |-> 0,
           remainingMinutes |-> 0]
NoCall == [data |-> NoData, at |-> 0, threw |-> FALSE, feedback |-> None,
           message |-> "", records |-> 0, logs |-> 0]
NoCompletion == [storage |-> "ok", logs |-> <<>>, records |-> <<>>, calls |-> 0,
                 last |-> NoCall]

\* storeCompletionData: the log is appended to the stored list.
storeCompletionData(e, completionLog) ==
    IF e.completion.storage = "ok"
    THEN [threw |-> FALSE, eng |-> [e EXCEPT !.completion.logs = Append(@, completionLog)]]
    ELSE [threw |-> TRUE, eng |-> e]

processCompletedTask(e, data) ==
    storeCompletionData(e, [taskId |-> data.taskId, completedAt |-> now,
                            actualDuration |-> data.actualDuration])

\* moveToIncompleteSheet: the incomplete-task record is built and logged.
moveToIncompleteSheet(e, data) ==
    [threw |-> FALSE,
     eng |-> [e EXCEPT !.completion.records = Append(@,
                [id |-> "incomplete_" \o ToString(now), taskId |-> data.taskId,
                 originalDuration |-> OrDefault(data.actualDuration, DefaultRecordDuration),
                 remainingDuration |-> OrDefault(data.remainingMinutes, DefaultRecordDuration),
                 priority |-> "medium",
                 progress |-> IF data.status = "partially_completed"
                              THEN PartialProgress ELSE 0])]]

processPartiallyCompletedTask(e, data) ==
    IF data.remainingMinutes > 0 THEN moveToIncompleteSheet(e, data)
    ELSE [threw |-> FALSE, eng |-> e]

processIncompleteTask(e, data) == moveToIncompleteSheet(e, data)

\* The message of the feedback notification, by what it reports.
FeedbackMessage(status) ==
    IF status = "completed" THEN "completed successfully"
    ELSE IF status = "partially_completed" THEN "partially completed"
    ELSE IF status = "not_completed" THEN "moved to tomorrow"
    ELSE ""

\* sendCompletionFeedback: setTimeout(deliver, 1000), then notifications.set;
\* the trigger is not entered in the timers table.
sendCompletionFeedback(e, data) ==
    LET id == FeedbackId(data.taskId, now)
        e1 == SetTimeout(e, id, FeedbackDelay)
    IN [e1 EXCEPT !.notifications[id] =
                      [type |-> "system", taskId |-> data.taskId,
                       scheduledTime |-> now, delivered |-> FALSE,
                       message |-> FeedbackMessage(data.status)],
                  !.hist[id] = [@ EXCEPT !.arms = @ + 1, !.inCycle = 0,
                                         !.snoozeTimer = 0, !.snoozeDue = 0]]

\* handleTaskCompletion: dispatch on the status, then the feedback; an
\* exception of the dispatch is caught and logged, and skips the feedback.
handleTaskCompletion(e, data) ==
    LET d == IF data.status = "completed" THEN processCompletedTask(e, data)
             ELSE IF data.status = "partially_completed"
             THEN processPartiallyCompletedTask(e, data)
             ELSE IF data.status = "not_completed" THEN processIncompleteTask(e, data)
             ELSE [threw |-> FALSE, eng |-> e]
        e2 == IF d.threw THEN d.eng ELSE sendCompletionFeedback(d.eng, data)
    IN [e2 EXCEPT !.completion.calls = @ + 1,
                  !.completion.last =
                      [data |-> data, at |-> now, threw |-> d.threw,
                       feedback |-> IF d.threw THEN None
                                    ELSE FeedbackId(data.taskId, now),
                       message |-> IF d.threw THEN ""
                                   ELSE FeedbackMessage(data.status),
                       records |-> Len(d.eng.completion.records)
                                     - Len(e.completion.records),
                       logs |-> Len(d.eng.completion.logs)
                                  - Len(e.completion.logs)]]

\* action.payload?.status || 'completed'
ActionStatus(actionId) ==
    IF actionId = "partial" THEN "partially_completed"
    ELSE IF actionId = "not_completed" THEN "not_completed"
    ELSE "completed"

\* The ids of the actions a notification of this type carries.
ActionIds(type) ==
    IF type = "task_start" THEN {"snooze", "start"}
    ELSE IF type = "task_end" THEN {"completed", "partial", "not_completed"}
    ELSE {}

ActionType(actionId) == IF actionId = "snooze" THEN "snooze" ELSE "complete"

snoozeNotification(e, nid, minutes) ==
    IF e.notifications[nid] = NoNotification THEN e
    ELSE LET e1 == IF e.timers[nid] # 0 THEN ClearTimeout(e, e.timers[nid]) ELSE e
             e2 == [e1 EXCEPT !.notifications[nid].delivered = FALSE,
                              !.notifications[nid].scheduledTime =
                                  now + minutes * MsPerMinute]
             e3 == SetTimeout(e2, nid, minutes * MsPerMinute)
         IN [e3 EXCEPT !.timers[nid] = e.nextTimer,
                       !.hist[nid] = [@ EXCEPT !.arms = @ + 1, !.inCycle = 0,
                                               !.snoozeTimer = e.nextTimer,
                                               !.snoozeDue = now + minutes * MsPerMinute]]

handleNotificationAction(e, nid, actionId) ==
    LET n == e.notifications[nid]
    IN IF n = NoNotification THEN e
       ELSE IF actionId \notin ActionIds(n.type) THEN e
       ELSE IF ActionType(actionId) = "snooze"
       THEN snoozeNotification(e, nid, SnoozePayloadMinutes)
       ELSE handleTaskCompletion(e, [taskId |-> n.taskId,
                                     status |-> ActionStatus(actionId),
                                     actualDuration |-> 0, remainingMinutes |-> 0])

\* cleanup(): clears the triggers the timers table names, then the tables.
cleanup(e) ==
    [e EXCEPT !.timeouts = {x \in @ : \A nid \in NIds : e.timers[nid] # x.h},
              !.timers = [nid \in NIds |-> 0],
              !.notifications = [nid \in NIds |-> NoNotification],
              !.subscribers = <<>>,
              !.hist = [nid \in NIds |-> [e.hist[nid] EXCEPT !.inCycle = 0,
                                             !.snoozeTimer = 0, !.snoozeDue = 0,
                                             !.cleanupMark = e.nextTimer]]]

----------------------------------------------------------------------------
(* The engine's steps *)

EngineIdle ==
    /\ now = 0
    /\ notifications = [nid \in NIds |-> NoNotification]
    /\ timers = [nid \in NIds |-> 0]
    /\ subscribers = <<>>
    /\ timeouts = {}
    /\ nextTimer = 1
    /\ listenerUnsub = [l \in Listeners |-> None]
    /\ hist = [nid \in NIds |-> NoHist]
    /\ lastFire = NoFire
    /\ waits = 0

EngineInit == EngineIdle /\ completion = NoCompletion

\* A caller arms the start reminder of a task (ai-chat-interface.tsx:444).
ScheduleStart ==
    \E t \in TaskIds, st \in StartTimes :
        /\ nextTimer <= MaxTimers
        /\ SetEng(scheduleTaskStartNotification(Eng, t, st))
        /\ UNCHANGED <<now, listenerUnsub, waits, completion, schedVars, pack, detect>>

\* A caller arms the end prompt of a task (ai-chat-interface.tsx:445).
ScheduleEnd ==
    \E t \in TaskIds, et \in EndTimes :
        /\ nextTimer <= MaxTimers
        /\ SetEng(scheduleTaskEndNotification(Eng, t, et))
        /\ UNCHANGED <<now, listenerUnsub, waits, completion, schedVars, pack, detect>>

\* The runtime may run trigger x: it is due, and no trigger set earlier with
\* a timeout no longer than x's is still outstanding.
MayFire(x) ==
    /\ x.due <= now
    /\ \A y \in timeouts : ~(y.h < x.h /\ y.delay <= x.delay)

TimerFire ==
    \E x \in timeouts :
        /\ MayFire(x)
        /\ SetEng(deliverNotification([Eng EXCEPT !.timeouts = @ \ {x}], x.nid, x.h))
        /\ UNCHANGED <<now, listenerUnsub, waits, completion, schedVars, pack, detect>>

\* The user picks the snooze action of a notification shown to them.
SnoozeAction ==
    \E nid \in NIds :
        /\ nextTimer <= MaxTimers
        /\ notifications[nid] # NoNotification
        /\ "snooze" \in ActionIds(notifications[nid].type)
        /\ SetEng(handleNotificationAction(Eng, nid, "snooze"))
        /\ UNCHANGED <<now, listenerUnsub, waits, completion, schedVars, pack, detect>>

\* The UI reports the outcome of a task (ai-chat-interface.tsx:599, 612).
CompleteTask ==
    \E data \in CompletionData :
        /\ nextTimer <= MaxTimers
        /\ completion.calls < MaxCompletions
        /\ now \in CompletionInstants
        /\ SetEng(handleTaskCompletion(Eng, data))
        /\ completion' = handleTaskCompletion(Eng, data).completion
        /\ UNCHANGED <<now, listenerUnsub, waits, schedVars, pack, detect>>

\* The user picks a completion action of a notification that was shown.
CompletionAction ==
    \E nid \in NIds :
        /\ notifications[nid] # NoNotification
        /\ hist[nid].broadcasts >= 1
        /\ \E actionId \in ActionIds(notifications[nid].type) :
              /\ ActionType(actionId) = "complete"
              /\ nextTimer <= MaxTimers
              /\ completion.calls < MaxCompletions
              /\ now \in CompletionInstants
              /\ SetEng(handleNotificationAction(Eng, nid, actionId))
              /\ completion' = handleNotificationAction(Eng, nid, actionId).completion
        /\ UNCHANGED <<now, listenerUnsub, waits, schedVars, pack, detect>>

\* getPendingNotifications: the registered notifications not yet delivered.
getPendingNotifications ==
    {nid \in NIds : notifications[nid] # NoNotification /\ ~notifications[nid].delivered}

\* handleNotificationAction(nid, 'cancel') on a pending notification; the
\* history notes the arm cycle in which the cancel was requested.
CancelAction ==
    \E nid \in getPendingNotifications :
        /\ hist[nid].cancelArm # hist[nid].arms
        /\ SetEng([handleNotificationAction(Eng, nid, "cancel")
                      EXCEPT !.hist[nid].cancelArm = hist[nid].arms])
        /\ UNCHANGED <<now, listenerUnsub, waits, completion, schedVars, pack, detect>>

\* subscribe(callback): the callback l, whose body unsubscribes target.
Subscribe ==
    \E l \in Listeners, target \in Listeners \cup {None} :
        /\ Len(subscribers) < MaxSubs
        /\ IndexOf(subscribers, l) = 0
        /\ subscribers' = Append(subscribers, l)
        /\ listenerUnsub' = [listenerUnsub EXCEPT ![l] = target]
        /\ UNCHANGED <<now, notifications, timers, timeouts, nextTimer, hist,
                       lastFire, waits, completion, schedVars, pack, detect>>

\* The closure subscribe() returned for l is called outside any broadcast.
Unsubscribe ==
    \E l \in Listeners :
        /\ IndexOf(subscribers, l) > 0
        /\ subscribers' = UnsubscribeFrom(subscribers, l)
        /\ UNCHANGED <<now, notifications, timers, timeouts, nextTimer,
                       listenerUnsub, hist, lastFire, waits, completion,
                       schedVars, pack, detect>>

Cleanup ==
    /\ \E nid \in NIds : notifications[nid] # NoNotification
    /\ SetEng(cleanup(Eng))
    /\ UNCHANGED <<now, listenerUnsub, waits, completion, schedVars, pack, detect>>

\* Time passes only when no trigger is due, and never past a due time.
NoTimerDue == \A x \in timeouts : x.due > now

Wait ==
    \E d \in WaitSteps :
        /\ waits < MaxWaits
        /\ NoTimerDue
        /\ \A x \in timeouts : now + d <= x.due
        /\ now' = now + d
        /\ waits' = waits + 1
        /\ UNCHANGED <<notifications, timers, subscribers, timeouts, nextTimer,
                       listenerUnsub, hist, lastFire, completion, schedVars, pack, detect>>

\* Time passes up to the next due time.
Jump ==
    /\ timeouts # {}
    /\ NoTimerDue
    /\ \E x \in timeouts :
          /\ \A y \in timeouts : x.due <= y.due
          /\ now' = x.due
    /\ UNCHANGED <<notifications, timers, subscribers, timeouts, nextTimer,
                   listenerUnsub, hist, lastFire, waits, completion, schedVars, pack, detect>>

----------------------------------------------------------------------------
(* SchedulerService: task normalization *)

WorkStartMinutes == 540        \* work_hours.start '09:00'
WorkEndMinutes == 1080         \* work_hours.end '18:00'
BreakDuration == 15
FixedPriority == 100
DefaultPriority == 75
DefaultPriorityDuration == 60
DefaultIncompleteDuration == 30
CarryoverBonus == 10
FallbackScore == 60
SheetDefaultDuration == 60
ModifiedScore == 70
AICandidateScore == 85
CandidateCount == 3            \* 'Generate 3 optimized daily schedule candidates'
Unresolved == -1               \* a start or end that is no date-time ('' or '09:00')

\* A priority_score is whatever JavaScript computed: a number, or a string
\* (a label, or a label with "10" appended) that is NaN in arithmetic.
Num(n) == [num |-> TRUE, v |-> n, label |-> ""]
Label(s) == [num |-> FALSE, v |-> 0, label |-> s]
Undefined == Label("undefined")

\* task.priority || 75
PriorityOrDefault(p) ==
    IF p = Undefined \/ (p.num /\ p.v = 0) THEN Num(DefaultPriority) ELSE p

\* task.priority + 10
PriorityPlusBonus(p) ==
    IF p.num THEN Num(p.v + CarryoverBonus)
    ELSE IF p = Undefined THEN Label("NaN")
    ELSE Label(p.label \o "10")


\* convertToISO(time): today's date at that time of day, as an instant
convertToISO(minutes) == minutes * MsPerMinute

\* calculateDuration(startTime, endTime), in minutes
calculateDuration(startTime, endTime) == endTime - startTime

CourseTask(row, index) ==
    [task_id |-> "course_" \o ToString(index), type |-> "fixed",
     start |-> convertToISO(row.start_time),
     duration_minutes |-> calculateDuration(row.start_time, row.end_time),
     end |-> convertToISO(row.end_time),
     priority_score |-> Num(FixedPriority), targets |-> "array", fixed |-> TRUE]

PriorityTaskOf(row, index) ==
    [task_id |-> "priority_" \o ToString(index), type |-> "flexible",
     start |-> Unresolved,
     duration_minutes |-> OrDefault(row.duration, DefaultPriorityDuration),
     end |-> Unresolved,
     priority_score |-> PriorityOrDefault(row.priority), targets |-> "array",
     fixed |-> FALSE]

IncompleteTaskOf_PriorityPrefix(row, index) ==
    [task_id |-> "priority_" \o ToString(index), type |-> "incomplete",
     start |-> Unresolved,
     duration_minutes |-> OrDefault(row.remaining_duration, DefaultIncompleteDuration),
     end |-> Unresolved,
     priority_score |-> PriorityPlusBonus(row.priority), targets |-> "array",
     fixed |-> FALSE]

IncompleteTaskOf(row, index) ==
    [task_id |-> "incomplete_" \o ToString(index), type |-> "incomplete",
     start |-> Unresolved,
     duration_minutes |-> OrDefault(row.remaining_duration, DefaultIncompleteDuration),
     end |-> Unresolved,
     priority_score |-> PriorityPlusBonus(row.priority), targets |-> "array",
     fixed |-> FALSE]

RECURSIVE CourseTasks(_, _)
CourseTasks(rows, i) ==
    IF i > Len(rows) THEN <<>>
    ELSE (IF rows[i].day_of_week /\ rows[i].start_time # 0 /\ rows[i].end_time # 0
          THEN <<CourseTask(rows[i], i - 1)>> ELSE <<>>) \o CourseTasks(rows, i + 1)

\* normalizeTasks: the tasks, or threw when task.targets.split is no function
\* (targets is truthy and not a string).
normalizeTasks(courseSchedule, priorityTasks, incompleteTasks) ==
    IF \E i \in 1..Len(priorityTasks) : priorityTasks[i].targets = "array"
    THEN [threw |-> TRUE, tasks |-> <<>>]
    ELSE [threw |-> FALSE,
          tasks |-> CourseTasks(courseSchedule, 1)
                    \o [i \in 1..Len(priorityTasks) |-> PriorityTaskOf(priorityTasks[i], i - 1)]
                    \o [i \in 1..Len(incompleteTasks) |-> IncompleteTaskOf(incompleteTasks[i], i - 1)]]

----------------------------------------------------------------------------
(* GoogleSheetsService: what the three readers hand to the normalizer *)

\* fetchSheet: the values of the response, or [] when the request fails.
fetchSheet(response) == IF response.ok THEN response.values ELSE <<>>

\* rows.slice(1): the rows after the header row
DataRows(rows) == IF rows = <<>> THEN <<>> ELSE Tail(rows)

\* getCourseSchedule: {day, time, course, location, instructor}; the fields
\* normalizeTasks reads (day_of_week, start_time, end_time) are not set.
getCourseSchedule(rows) ==
    [i \in 1..Len(DataRows(rows)) |->
        [day |-> DataRows(rows)[i].day, time |-> DataRows(rows)[i].time,
         day_of_week |-> FALSE, start_time |-> 0, end_time |-> 0]]

\* getPriorityTasks: priority is the lower-cased label, targets an array and
\* the duration is named estimatedDuration; duration is not set.
getPriorityTasks(rows) ==
    [i \in 1..Len(DataRows(rows)) |->
        [priority |-> Label(DataRows(rows)[i].priority),
         estimatedDuration |-> OrDefault(DataRows(rows)[i].duration, SheetDefaultDuration),
         targets |-> "array", duration |-> 0]]

\* getIncompleteTasks: the duration is named remainingDuration;
\* remaining_duration is not set.
getIncompleteTasks(rows) ==
    [i \in 1..Len(DataRows(rows)) |->
        [priority |-> Label(DataRows(rows)[i].priority),
         remainingDuration |-> OrDefault(DataRows(rows)[i].duration, SheetDefaultDuration),
         remaining_duration |-> 0]]

----------------------------------------------------------------------------
(* SchedulerService: the fallback packer *)

\* The comparator (a, b) => b.priority_score - a.priority_score; NaN counts as 0.
ComparePriority(a, b) ==
    IF a.priority_score.num /\ b.priority_score.num
    THEN b.priority_score.v - a.priority_score.v ELSE 0

\* Stable insertion of task t into the sorted sequence s.
RECURSIVE InsertSorted(_, _)
InsertSorted(s, t) ==
    IF s = <<>> THEN <<t>>
    ELSE IF ComparePriority(s[Len(s)], t) <= 0 THEN Append(s, t)
    ELSE Append(InsertSorted(SubSeq(s, 1, Len(s) - 1), t), s[Len(s)])

\* [...tasks].sort(comparator): a stable sort of a copy
RECURSIVE SortByPriority(_)
SortByPriority(tasks) ==
    IF tasks = <<>> THEN <<>>
    ELSE InsertSorted(SortByPriority(SubSeq(tasks, 1, Len(tasks) - 1)), tasks[Len(tasks)])

\* The map callback: the task placed at currentTime.
PlaceTask(task, currentTime) ==
    [task EXCEPT !.start = currentTime,
                 !.end = currentTime + task.duration_minutes * MsPerMinute]

\* currentTime after a task: its end plus the break.
NextCurrentTime(placed) == placed.end + BreakDuration * MsPerMinute

RECURSIVE PlaceSequentially(_, _, _)
PlaceSequentially(sorted, i, currentTime) ==
    IF i > Len(sorted) THEN <<>>
    ELSE LET placed == PlaceTask(sorted[i], currentTime)
         IN <<placed>> \o PlaceSequentially(sorted, i + 1, NextCurrentTime(placed))

\* The caller's array after generateFallbackSchedule(tasks): the packer sorts
\* a copy ([...tasks]) and builds new task objects ({...task, start, end}).
TasksAfterFallback_SortInPlace(tasks) == SortByPriority(tasks)

TasksAfterFallback(tasks) == tasks

generateFallbackSchedule(tasks) ==
    <<[id |-> "fallback_1",
       schedule |-> [tasks |-> PlaceSequentially(SortByPriority(tasks), 1,
                                   WorkStartMinutes * MsPerMinute),
                     explainability |-> "Fallback schedule: tasks sorted by priority"],
       score |-> FallbackScore,
       conflicts |-> <<>>]>>

----------------------------------------------------------------------------
(* GeminiAIService.generateSchedule and the candidate generation *)

\* What the reasoning collaborator does with one request.
FailingReplies == {"network_error", "http_error"}
TextReplies == {"no_text", "not_json", "json_null", "json_no_candidates",
                "json_candidates"}

\* makeRequest: the reply's text; every failure becomes an apology sentence.
makeRequest(reply) ==
    IF reply.kind \in FailingReplies \cup {"no_text"}
    THEN [shape |-> "not_json", candidates |-> <<>>]
    ELSE [shape |-> reply.kind, candidates |-> reply.candidates]

StubCandidate ==
    [id |-> "fallback",
     schedule |-> [tasks |-> <<>>,
                   explainability |-> "AI service unavailable, using fallback"],
     score |-> 0, conflicts |-> <<>>]

\* generateSchedule: JSON.parse of the text, or the stub when parsing throws.
generateSchedule(reply) ==
    LET text == makeRequest(reply)
    IN IF text.shape = "not_json"
       THEN [null |-> FALSE, hasCandidates |-> TRUE, candidates |-> <<StubCandidate>>]
       ELSE [null |-> text.shape = "json_null",
             hasCandidates |-> text.shape = "json_candidates",
             candidates |-> text.candidates]

\* generateScheduleCandidates: response.candidates || [], and the packer when
\* reading response.candidates throws (the reply parsed to null).
generateScheduleCandidates(tasks, reply) ==
    LET response == generateSchedule(reply)
    IN IF response.null THEN generateFallbackSchedule(tasks)
       ELSE IF response.hasCandidates THEN response.candidates
       ELSE <<>>

\* The caller's array after generateScheduleCandidates(tasks, ...): the tasks
\* are only serialized into the prompt, and handed to the packer on fallback.
TasksAfterCandidates(tasks, reply) ==
    IF generateSchedule(reply).null THEN TasksAfterFallback(tasks) ELSE tasks

\* makeStructuredRequest: the JSON object found in the text; a text without
\* braces (the apology sentences, null) or one that does not parse gives
\* structured: false.
makeStructuredRequest(reply) ==
    LET text == makeRequest(reply)
    IN IF text.shape \in {"json_no_candidates", "json_candidates"}
       THEN [structured |-> TRUE, hasCandidates |-> text.shape = "json_candidates",
             candidates |-> text.candidates]
       ELSE [structured |-> FALSE, hasCandidates |-> FALSE, candidates |-> <<>>]

\* parseScheduleCandidates: one schedule per candidate of the reply, or [].
parseScheduleCandidates(response) ==
    IF response.hasCandidates
    THEN [k \in 1..Len(response.candidates) |->
             [tasks |-> <<>>, explainability |-> "AI-generated schedule"]]
    ELSE <<>>

\* GeminiAIService.generateOptimalSchedule: response.suggestedSchedule || [],
\* where generateScheduleCandidates sets suggestedSchedule only for a
\* structured reply.
generateOptimalSchedule(reply) ==
    LET structuredResponse == makeStructuredRequest(reply)
    IN IF structuredResponse.structured
       THEN parseScheduleCandidates(structuredResponse)
       ELSE <<>>

\* Candidate lists the collaborator may answer with for these tasks: none,
\* the tasks echoed as they are, the tasks placed in input order, or the
\* tasks placed in input order and written without their targets.
AICandidate(tasks, id) ==
    [id |-> id,
     schedule |-> [tasks |-> tasks, explainability |-> "Short explanation"],
     score |-> AICandidateScore, conflicts |-> <<>>]

WithoutTargets(tasks) ==
    [i \in 1..Len(tasks) |-> [tasks[i] EXCEPT !.targets = "absent"]]

AICandidateLists(tasks) ==
    {<<>>,
     <<AICandidate(tasks, "candidate_1")>>,
     <<AICandidate(PlaceSequentially(tasks, 1, WorkStartMinutes * MsPerMinute),
                   "candidate_2")>>,
     <<AICandidate(WithoutTargets(
           PlaceSequentially(tasks, 1, WorkStartMinutes * MsPerMinute)),
                   "candidate_3")>>}

Replies(tasks) ==
    {[kind |-> k, candidates |-> <<>>] :
        k \in FailingReplies \cup (TextReplies \ {"json_candidates"})}
    \cup {[kind |-> "json_candidates", candidates |-> cs] : cs \in AICandidateLists(tasks)}

NoReply == [kind |-> None, candidates |-> <<>>]
IdleGen == [pc |-> "idle", tasks |-> <<>>, reply |-> NoReply,
            threw |-> FALSE, result |-> <<>>]

----------------------------------------------------------------------------
(* SchedulerService.applySchedule *)

NoSchedule == [tasks |-> <<>>, explainability |-> None]
NoApply == [outcome |-> None, stage |-> None, candidate |-> StubCandidate,
            prior |-> NoSchedule, events |-> <<>>, records |-> <<>>]

\* Step 1 for one task: the calendar event of a task that is not fixed is
\* described with task.targets.join(', '), a TypeError when targets is no array.
CreateEventThrows(task) == ~task.fixed /\ task.targets # "array"

\* Steps 1 and 2 never throw for any task: the creation requests are made.
CreateRequests(tasks) == \A i \in 1..Len(tasks) : ~CreateEventThrows(tasks[i])

\* Step 1: the tasks for which createCalendarEvent was called, in order, up
\* to the task whose description throws.
RECURSIVE RequestedEvents(_, _)
RequestedEvents(tasks, i) ==
    IF i > Len(tasks) \/ CreateEventThrows(tasks[i]) THEN <<>>
    ELSE (IF tasks[i].fixed THEN <<>> ELSE <<tasks[i].task_id>>)
         \o RequestedEvents(tasks, i + 1)

\* Step 2: createTask({..., due: task.end}) for every task, once step 1 is through.
RequestedRecords(tasks) ==
    IF CreateRequests(tasks)
    THEN [i \in 1..Len(tasks) |-> [task_id |-> tasks[i].task_id, due |-> tasks[i].end]]
    ELSE <<>>

\* Step 3 for one task: new Date(x).toISOString() throws for an x that is no
\* date-time, before anything is registered for that notification.
ArmTask(r, task) ==
    IF r.threw THEN r
    ELSE IF task.start = Unresolved THEN [r EXCEPT !.threw = TRUE]
    ELSE LET e1 == scheduleTaskStartNotification(r.eng, task.task_id, task.start)
         IN IF task.end = Unresolved THEN [threw |-> TRUE, eng |-> e1]
            ELSE [threw |-> FALSE,
                  eng |-> scheduleTaskEndNotification(e1, task.task_id, task.end)]

RECURSIVE ArmTasks(_, _, _)
ArmTasks(r, tasks, i) ==
    IF i > Len(tasks) THEN r ELSE ArmTasks(ArmTask(r, tasks[i]), tasks, i + 1)

\* A store that keeps the tasks of the schedule it replaces.
StoreSchedule_Merge(prior, candidate) ==
    [candidate.schedule EXCEPT !.tasks = prior.tasks \o @]

\* this.currentSchedule = candidate.schedule
StoreSchedule(prior, candidate) == candidate.schedule

----------------------------------------------------------------------------
(* The scheduler's steps *)

CourseSheetRows == {[day |-> "Mon", time |-> "09:00"]}
PrioritySheetRows == {[priority |-> "high", duration |-> 90]}
IncompleteSheetRows == {[priority |-> "medium", duration |-> 45]}
CourseHeader == [day |-> "Day", time |-> "Time"]
PriorityHeader == [priority |-> "Priority", duration |-> 0]
IncompleteHeader == [priority |-> "Priority", duration |-> 0]

\* What the sheets API may answer for one sheet: a failure, an empty sheet, or
\* the header row followed by up to n rows.
Responses(header, rows, n) ==
    {[ok |-> FALSE, values |-> <<>>], [ok |-> TRUE, values |-> <<>>]}
    \cup {[ok |-> TRUE, values |-> <<header>> \o s] : s \in BoundedSeq(rows, n)}

\* Steps 1 and 3 of generateDailySchedule: the three sheets are read and
\* their rows normalized.
LoadTasks(course, priority, incomplete) ==
    normalizeTasks(getCourseSchedule(fetchSheet(course)),
                   getPriorityTasks(fetchSheet(priority)),
                   getIncompleteTasks(fetchSheet(incomplete)))

\* The outcomes of loading, over the answers of the sheets API.
LoadOutcomes ==
    {LoadTasks(c, p, i) :
        c \in Responses(CourseHeader, CourseSheetRows, MaxCourseSheetRows),
        p \in Responses(PriorityHeader, PrioritySheetRows, MaxPriorityRows),
        i \in Responses(IncompleteHeader, IncompleteSheetRows, MaxIncompleteRows)}

\* No handleChatModification call yet.
NoChat == [pc |-> "idle", outcome |-> None, error |-> None, contacted |-> FALSE,
           result |-> <<>>, calls |-> 0, failed |-> 0]

SchedIdle ==
    /\ currentSchedule = NoSchedule
    /\ gen = IdleGen
    /\ applyCalls = <<>>
    /\ lastApply = NoApply
    /\ chat = NoChat

\* The reasoning collaborator either fails every request or answers each.
SchedInit ==
    /\ SchedIdle
    /\ collaborator \in {"failing", "replying"}

\* generateDailySchedule up to the request to the collaborator: the sheets
\* are read and normalized; an exception of normalizeTasks is rethrown as
\* 'Failed to generate schedule'.
GenerateStart ==
    \E n \in LoadOutcomes :
        /\ gen.pc \in {"idle", "done"}
        /\ gen' = IF n.threw
                  THEN [IdleGen EXCEPT !.pc = "done", !.threw = TRUE]
                  ELSE [IdleGen EXCEPT !.pc = "awaitAI", !.tasks = n.tasks]
        /\ UNCHANGED <<currentSchedule, collaborator, applyCalls, lastApply, chat>>
        /\ UNCHANGED <<engineVars, pack, detect>>

\* The collaborator's outcome arrives and generateDailySchedule returns.
GenerateReturn ==
    \E reply \in Replies(gen.tasks) :
        /\ gen.pc = "awaitAI"
        /\ (collaborator = "failing") <=> (reply.kind \in FailingReplies)
        /\ gen' = [gen EXCEPT !.pc = "done", !.reply = reply,
                              !.tasks = TasksAfterCandidates(gen.tasks, reply),
                              !.result = generateScheduleCandidates(gen.tasks, reply)]
        /\ UNCHANGED <<currentSchedule, collaborator, applyCalls, lastApply, chat>>
        /\ UNCHANGED <<engineVars, pack, detect>>

\* applySchedule(candidate) up to its await: the external requests are made
\* and the notifications of every task are armed, in task order; an exception
\* in either step is rethrown as 'Failed to apply schedule'.
ApplyBegin ==
    \E i \in 1..Len(gen.result) :
        LET c == gen.result[i]
            created == CreateRequests(c.schedule.tasks)
            r == IF created
                 THEN ArmTasks([threw |-> FALSE, eng |-> Eng], c.schedule.tasks, 1)
                 ELSE [threw |-> TRUE, eng |-> Eng]
        IN /\ gen.pc = "done"
           /\ Len(applyCalls) < MaxInFlight
           /\ nextTimer + 2 * Len(c.schedule.tasks) <= MaxTimers + 1
           /\ SetEng(r.eng)
           /\ IF r.threw
              THEN /\ lastApply' = [outcome |-> "threw",
                                    stage |-> IF created THEN "arm" ELSE "create",
                                    candidate |-> c, prior |-> currentSchedule,
                                    events |-> RequestedEvents(c.schedule.tasks, 1),
                                    records |-> RequestedRecords(c.schedule.tasks)]
                   /\ UNCHANGED applyCalls
              ELSE /\ applyCalls' = Append(applyCalls, c)
                   /\ UNCHANGED lastApply
           /\ UNCHANGED <<now, listenerUnsub, waits, completion, currentSchedule,
                          collaborator, gen, chat, pack, detect>>

\* The awaited requests settle; applySchedule stores the schedule and returns.
ApplyEnd ==
    \E i \in 1..Len(applyCalls) :
        /\ currentSchedule' = StoreSchedule(currentSchedule, applyCalls[i])
        /\ lastApply' = [outcome |-> "returned", stage |-> "store",
                         candidate |-> applyCalls[i], prior |-> currentSchedule,
                         events |-> RequestedEvents(applyCalls[i].schedule.tasks, 1),
                         records |-> RequestedRecords(applyCalls[i].schedule.tasks)]
        /\ applyCalls' = Splice(applyCalls, i)
        /\ UNCHANGED <<collaborator, gen, chat>>
        /\ UNCHANGED <<engineVars, pack, detect>>

\* if (!this.currentSchedule) throw new Error('No active schedule to modify')
ChatPrecondition_Always(schedule) == TRUE

ChatPrecondition(schedule) == schedule # NoSchedule

\* processScheduleModification: the collaborator's plan, or the default plan
\* when the request or the parse of the reply fails.
processScheduleModification(mode) ==
    IF mode = "failing" THEN "default_plan" ELSE "plan"

\* generateModifiedSchedule: the current schedule as the one candidate.
generateModifiedSchedule(schedule, modification) ==
    IF schedule = NoSchedule THEN <<>>
    ELSE <<[id |-> "modified_1", schedule |-> schedule, score |-> ModifiedScore,
            conflicts |-> <<>>]>>

\* handleChatModification up to its first await: the precondition, then the
\* request to the collaborator.
ChatBegin ==
    /\ chat.pc = "idle"
    /\ chat.calls < MaxChats
    /\ IF ChatPrecondition(currentSchedule)
       THEN chat' = [chat EXCEPT !.pc = "awaiting", !.outcome = None, !.error = None,
                                 !.contacted = TRUE, !.result = <<>>,
                                 !.calls = @ + 1]
       ELSE chat' = [chat EXCEPT !.outcome = "threw",
                                 !.error = "No active schedule to modify",
                                 !.contacted = FALSE, !.result = <<>>,
                                 !.calls = @ + 1, !.failed = @ + 1]
    /\ UNCHANGED <<currentSchedule, collaborator, gen, applyCalls, lastApply>>
    /\ UNCHANGED <<engineVars, pack, detect>>

\* handleChatModification after the collaborator's answer.
ChatReturn ==
    /\ chat.pc = "awaiting"
    /\ chat' = [chat EXCEPT !.pc = "idle", !.outcome = "returned",
                            !.result = generateModifiedSchedule(currentSchedule,
                                           processScheduleModification(collaborator))]
    /\ UNCHANGED <<currentSchedule, collaborator, gen, applyCalls, lastApply>>
    /\ UNCHANGED <<engineVars, pack, detect>>

----------------------------------------------------------------------------
(* A direct run of the normalizer and the fallback packer on any rows *)

CourseRows ==
    {[day_of_week |-> TRUE, start_time |-> 600, end_time |-> 660],
     [day_of_week |-> TRUE, start_time |-> 660, end_time |-> 540],
     [day_of_week |-> FALSE, start_time |-> 600, end_time |-> 660]}
PriorityRows ==
    {[duration |-> 0, priority |-> Undefined, targets |-> "absent"],
     [duration |-> 480, priority |-> Num(90), targets |-> "string"],
     [duration |-> 60, priority |-> Num(50), targets |-> "array"],
     [duration |-> 60, priority |-> Label("high"), targets |-> "string"],
     [duration |-> 60, priority |-> Label("low"), targets |-> "string"]}
IncompleteRows ==
    {[remaining_duration |-> 0, priority |-> Num(50)],
     [remaining_duration |-> 120, priority |-> Num(80)]}

----------------------------------------------------------------------------
(* GoogleCalendarService.detectConflicts *)

NoDetect == [pc |-> "idle", tasks |-> <<>>, calendar |-> <<>>,
             existingEvents |-> <<>>, conflicts |-> <<>>]

\* A minute of the day as a Date value, or no date-time.
Instant(m) == IF m = Unresolved THEN Unresolved ELSE m * MsPerMinute

\* start and end of a task of the schedule: resolved instants, or no date-time.
DetectIntervals ==
    {<<540, 600>>, <<570, 630>>, <<600, 660>>, <<Unresolved, Unresolved>>}
DetectTasks ==
    {[name |-> n, start |-> Instant(iv[1]), end |-> Instant(iv[2])] :
        n \in {"Study", "Lab"}, iv \in DetectIntervals}

\* The events the calendar holds; the service always answers with date-times.
ExistingEvents ==
    {[summary |-> s, start |-> Instant(iv[1]), end |-> Instant(iv[2])] :
        s \in {"Meeting", "Class"}, iv \in {<<540, 600>>, <<600, 660>>}}

\* a < b on two Date objects: false when either is an invalid date.
DateLess(a, b) == a # Unresolved /\ b # Unresolved /\ a < b

TimeOverlap_Closed(newStart, newEnd, existingStart, existingEnd) ==
    ~DateLess(existingEnd, newStart) /\ ~DateLess(newEnd, existingStart)

\* if (newStart < existingEnd && newEnd > existingStart)
TimeOverlap(newStart, newEnd, existingStart, existingEnd) ==
    DateLess(newStart, existingEnd) /\ DateLess(existingStart, newEnd)

\* The pushed sentence: the task's name, the event's summary and its times.
ConflictReport(newTask, existingEvent) ==
    [task |-> newTask.name, event |-> existingEvent.summary,
     from |-> existingEvent.start, to |-> existingEvent.end]

\* existingEvents.forEach for one task, from event j on.
RECURSIVE ConflictsOfTask(_, _, _)
ConflictsOfTask(newTask, existingEvents, j) ==
    IF j > Len(existingEvents) THEN <<>>
    ELSE (IF TimeOverlap(newTask.start, newTask.end,
                         existingEvents[j].start, existingEvents[j].end)
          THEN <<ConflictReport(newTask, existingEvents[j])>>
          ELSE <<>>)
         \o ConflictsOfTask(newTask, existingEvents, j + 1)

\* newSchedule.tasks.forEach, from task i on.
RECURSIVE ConflictsFrom(_, _, _)
ConflictsFrom(tasks, existingEvents, i) ==
    IF i > Len(tasks) THEN <<>>
    ELSE ConflictsOfTask(tasks[i], existingEvents, 1)
         \o ConflictsFrom(tasks, existingEvents, i + 1)

NoPack == [pc |-> "idle", course |-> <<>>, priority |-> <<>>, incomplete |-> <<>>,
           threw |-> FALSE, tasks |-> <<>>, reply |-> NoReply, result |-> <<>>]

DetectInit ==
    /\ EngineInit /\ SchedIdle /\ collaborator = "replying" /\ pack = NoPack
    /\ detect \in [pc : {"input"},
                   tasks : BoundedSeq(DetectTasks, MaxDetectTasks),
                   calendar : BoundedSeq(ExistingEvents, MaxExistingEvents),
                   existingEvents : {<<>>}, conflicts : {<<>>}]

\* await this.getCalendarEvents(startDate, endDate): the events of the day, or
\* [] when the request fails.
getCalendarEvents ==
    \E ok \in BOOLEAN :
        /\ detect.pc = "input"
        /\ detect' = [detect EXCEPT !.pc = "fetched",
                          !.existingEvents = IF ok THEN detect.calendar ELSE <<>>]
        /\ UNCHANGED <<engineVars, schedVars, pack>>

\* detectConflicts after its await: every task against every fetched event.
detectConflicts ==
    /\ detect.pc = "fetched"
    /\ detect' = [detect EXCEPT !.pc = "done",
                      !.conflicts = ConflictsFrom(detect.tasks, detect.existingEvents, 1)]
    /\ UNCHANGED <<engineVars, schedVars, pack>>

PackInit ==
    pack \in [pc : {"input"},
              course : BoundedSeq(CourseRows, MaxCourseRows),
              priority : BoundedSeq(PriorityRows, MaxPriorityRows),
              incomplete : BoundedSeq(IncompleteRows, MaxIncompleteRows),
              threw : {FALSE}, tasks : {<<>>}, reply : {NoReply}, result : {<<>>}]

Normalize ==
    LET n == normalizeTasks(pack.course, pack.priority, pack.incomplete)
    IN /\ pack.pc = "input"
       /\ pack' = [pack EXCEPT !.pc = "normalized", !.threw = n.threw,
                               !.tasks = n.tasks]
       /\ UNCHANGED <<engineVars, schedVars, detect>>

Fallback ==
    /\ pack.pc = "normalized"
    /\ ~pack.threw
    /\ pack' = [pack EXCEPT !.pc = "packed",
                            !.tasks = TasksAfterFallback(pack.tasks),
                            !.result = generateFallbackSchedule(pack.tasks)]
    /\ UNCHANGED <<engineVars, schedVars, detect>>

\* generateScheduleCandidates on the normalized tasks, for any reply.
Candidates ==
    \E reply \in Replies(pack.tasks) :
        /\ pack.pc = "normalized"
        /\ ~pack.threw
        /\ pack' = [pack EXCEPT !.pc = "generated",
                                !.tasks = TasksAfterCandidates(pack.tasks, reply),
                                !.result = generateScheduleCandidates(pack.tasks, reply)]
        /\ UNCHANGED <<engineVars, schedVars, detect>>

\* The dashboard's generation: generateOptimalSchedule on the rows.
Optimal ==
    \E reply \in Replies(<<>>) :
        /\ pack.pc = "input"
        /\ pack' = [pack EXCEPT !.pc = "optimal", !.reply = reply,
                                !.result = generateOptimalSchedule(reply)]
        /\ UNCHANGED <<engineVars, schedVars, detect>>

----------------------------------------------------------------------------
(* Specifications *)

\* The notification engine driven through its public methods.
NotifyInit ==
    /\ EngineInit /\ SchedIdle /\ collaborator = "replying"
    /\ pack = NoPack /\ detect = NoDetect
NotifyNext ==
    \/ ScheduleStart
    \/ ScheduleEnd
    \/ TimerFire
    \/ SnoozeAction
    \/ Cleanup
    \/ Wait
    \/ Jump
SpecNotify == NotifyInit /\ [][NotifyNext]_vars

\* Subscribers coming and going around broadcasts.
BroadcastNext ==
    \/ Subscribe
    \/ Unsubscribe
    \/ ScheduleStart
    \/ TimerFire
    \/ Jump
SpecBroadcast == NotifyInit /\ [][BroadcastNext]_vars

\* Task outcomes reported through the UI and through notification actions.
CompleteInit ==
    /\ EngineIdle
    /\ completion \in {[NoCompletion EXCEPT !.storage = s] : s \in StorageStates}
    /\ SchedIdle
    /\ collaborator = "replying"
    /\ pack = NoPack /\ detect = NoDetect
CompleteNext ==
    \/ ScheduleEnd
    \/ TimerFire
    \/ Jump
    \/ CompleteTask
    \/ CompletionAction
    \/ CancelAction
SpecComplete == CompleteInit /\ [][CompleteNext]_vars

\* The incomplete-task record the last completion call produced.
LastRecord == completion.records[Len(completion.records)]

\* C13: a partially_completed outcome with remaining_minutes = R > 0 produces
\* exactly one incomplete-task record, with remaining_duration = R,
\* original_duration = actual_duration when given and R otherwise, and a
\* progress within 0..100.
C13_PartialMigration ==
    (completion.last.data.status = "partially_completed"
        /\ completion.last.data.remainingMinutes > 0) =>
        /\ completion.last.records = 1
        /\ LastRecord.remainingDuration = completion.last.data.remainingMinutes
        /\ LastRecord.originalDuration =
               (IF completion.last.data.actualDuration # 0
                THEN completion.last.data.actualDuration
                ELSE completion.last.data.remainingMinutes)
        /\ LastRecord.progress \in 0..100

\* C14: a not_completed outcome produces one incomplete-task record whose
\* remaining_duration is the full original duration and whose progress is 0.
C14_IncompleteCarriesFullDuration ==
    (completion.last.data.status = "not_completed") =>
        /\ completion.last.records = 1
        /\ LastRecord.remainingDuration = LastRecord.originalDuration
        /\ LastRecord.progress = 0

\* C15: a partially_completed outcome with remaining_minutes 0 or absent has
\* the effects of completed: one completion log with the actual duration and
\* the timestamp, no incomplete-task record, and a completion as feedback.
C15_PartialWithoutRemainderIsCompletion ==
    (completion.last.data.status = "partially_completed"
        /\ completion.last.data.remainingMinutes = 0
        /\ completion.storage = "ok") =>
        /\ completion.last.records = 0
        /\ completion.last.logs = 1
        /\ completion.logs[Len(completion.logs)] =
               [taskId |-> completion.last.data.taskId,
                completedAt |-> completion.last.at,
                actualDuration |-> completion.last.data.actualDuration]
        /\ completion.last.message = FeedbackMessage("completed")

\* C16: every completion call, whether or not its dispatch failed, leaves a
\* feedback notification of kind system for the task that is either waiting
\* on its delayed trigger or was broadcast after the fixed delay.
C16_FeedbackAfterEveryCompletion ==
    (completion.calls >= 1) =>
        /\ completion.last.feedback # None
        /\ LET id == completion.last.feedback
           IN \/ /\ notifications[id] # NoNotification
                 /\ notifications[id].type = "system"
                 /\ \E tm \in timeouts :
                       /\ tm.nid = id
                       /\ tm.due >= completion.last.at + FeedbackDelay
              \/ hist[id].broadcasts >= 1

\* C17: once a cancel was requested for a pending notification, the
\* notification is no longer pending, has no outstanding trigger, and is not
\* broadcast in that arm cycle.
C17_CancelRemovesPending ==
    \A nid \in NIds :
        (hist[nid].arms >= 1 /\ hist[nid].cancelArm = hist[nid].arms) =>
            /\ nid \notin getPendingNotifications
            /\ {x \in timeouts : x.nid = nid} = {}
            /\ hist[nid].inCycle = 0

\* C18: cleanup() empties the timer table and the registry, and a broadcast
\* after it is never caused by a trigger that was armed before it, also when
\* the same notification id is armed again (cleanupMark is the first handle
\* handed out after the last cleanup).
C18_CleanupSilencesEarlierTriggers ==
    \A nid \in NIds :
        /\ hist[nid].inCycle >= 1 => hist[nid].bcastBy >= hist[nid].cleanupMark
        /\ (hist[nid].cleanupMark = nextTimer) =>
               (timers[nid] = 0 /\ notifications[nid] = NoNotification)

\* C19: in every arming of a task with start_time < end_time the start
\* notification is broadcast before the end notification: once the end
\* notification of the arming has been broadcast, the start one has been
\* broadcast too (or was broadcast and is snoozed since).
C19_StartBroadcastBeforeEnd ==
    \A t \in TaskIds \cup SheetTaskIds :
        (/\ notifications[StartId(t)] # NoNotification
         /\ notifications[EndId(t)] # NoNotification
         /\ hist[EndId(t)].inCycle >= 1) =>
            \/ hist[StartId(t)].inCycle >= 1
            \/ hist[StartId(t)].snoozeTimer # 0

\* C20: a handleChatModification call made while no schedule is current
\* throws 'No active schedule to modify' without contacting the collaborator
\* and changes neither the current schedule nor the notification engine; a
\* call made while a schedule is current contacts the collaborator and
\* returns that schedule as its one candidate.
C20_ChatNeedsCurrentSchedule ==
    [][/\ (chat'.calls # chat.calls) =>
            IF currentSchedule = NoSchedule
            THEN /\ chat'.outcome = "threw"
                 /\ chat'.error = "No active schedule to modify"
                 /\ ~chat'.contacted
                 /\ chat'.pc = "idle"
                 /\ currentSchedule' = NoSchedule
                 /\ notifications' = notifications
                 /\ timers' = timers
                 /\ timeouts' = timeouts
            ELSE /\ chat'.contacted
                 /\ chat'.pc = "awaiting"
       /\ (chat.pc = "awaiting" /\ chat'.pc = "idle") =>
            /\ chat'.outcome = "returned"
            /\ Len(chat'.result) = 1
            /\ chat'.result[1].schedule = currentSchedule
            /\ currentSchedule' = currentSchedule
            /\ currentSchedule # NoSchedule]_vars

\* A call failed for want of a schedule, and after a schedule was applied a
\* later call returned its candidate.
C20_Witness ==
    /\ chat.failed >= 1
    /\ chat.outcome = "returned"
    /\ Len(chat.result) = 1
    /\ currentSchedule # NoSchedule

\* The registry through arming, delivery, snooze, completion actions and cleanup.
RegistryNext ==
    \/ ScheduleStart
    \/ ScheduleEnd
    \/ TimerFire
    \/ SnoozeAction
    \/ CompletionAction
    \/ Cleanup
    \/ Jump
SpecRegistry == NotifyInit /\ [][RegistryNext]_vars

\* C25: a registered notification stays registered, for the same task and of
\* the same kind, through every step but cleanup(), which empties the registry.
C25_OnlyCleanupRemoves ==
    [][\A nid \in NIds :
          notifications[nid] # NoNotification =>
              \/ /\ notifications'[nid] # NoNotification
                 /\ notifications'[nid].type = notifications[nid].type
                 /\ notifications'[nid].taskId = notifications[nid].taskId
              \/ /\ \A m \in NIds : notifications'[m] = NoNotification
                 /\ hist'[nid].cleanupMark = nextTimer
                 /\ timers' = [m \in NIds |-> 0]]_vars

\* A notification that was delivered, snoozed and delivered again, and whose
\* task had a completion handled, is still registered.
C25_Witness ==
    \E nid \in NIds :
        /\ notifications[nid] # NoNotification
        /\ notifications[nid].delivered
        /\ hist[nid].snoozeTimer # 0
        /\ hist[nid].broadcasts >= 2
        /\ completion.calls >= 1

\* The scheduler service: generation from the sheets, then applying.
Init == EngineInit /\ SchedInit /\ pack = NoPack /\ detect = NoDetect
Next ==
    \/ GenerateStart
    \/ GenerateReturn
    \/ ApplyBegin
    \/ ApplyEnd
Spec == Init /\ [][Next]_vars

\* One generateDailySchedule call has returned its candidates.
Generated ==
    UNION {{[IdleGen EXCEPT !.pc = "done", !.tasks = n.tasks, !.reply = reply,
                            !.result = generateScheduleCandidates(n.tasks, reply)] :
               reply \in {r \in Replies(n.tasks) : r.kind \notin FailingReplies}} :
           n \in {o \in LoadOutcomes : ~o.threw}}

\* Applying generated candidates while the armed timers run.
ReapplyInit ==
    /\ EngineInit
    /\ currentSchedule = NoSchedule
    /\ collaborator = "replying"
    /\ gen \in Generated
    /\ applyCalls = <<>>
    /\ lastApply = NoApply
    /\ chat = NoChat
    /\ pack = NoPack /\ detect = NoDetect
ReapplyNext ==
    \/ ApplyBegin
    \/ ApplyEnd
    \/ TimerFire
    \/ Jump
SpecReapply == ReapplyInit /\ [][ReapplyNext]_vars

\* Chat modifications before, while and after a generated candidate is applied.
ChatNext ==
    \/ ApplyBegin
    \/ ApplyEnd
    \/ ChatBegin
    \/ ChatReturn
SpecChat == ReapplyInit /\ [][ChatNext]_vars

\* The normalizer and the packer as functions of their inputs.
PackSpecInit ==
    EngineInit /\ SchedIdle /\ collaborator = "replying" /\ PackInit /\ detect = NoDetect
PackNext ==
    \/ Normalize
    \/ Fallback
    \/ Candidates
SpecPack == PackSpecInit /\ [][PackNext]_vars

\* Generation on the rows while the calendar holds events for the day.
BusyInit ==
    /\ EngineInit /\ SchedIdle /\ collaborator = "replying" /\ PackInit
    /\ detect \in [pc : {"idle"}, tasks : {<<>>},
                   calendar : BoundedSeq(ExistingEvents, MaxExistingEvents),
                   existingEvents : {<<>>}, conflicts : {<<>>}]
BusyNext ==
    \/ Normalize
    \/ Fallback
    \/ Candidates
SpecBusy == BusyInit /\ [][BusyNext]_vars

\* detectConflicts on a schedule, against the events of the calendar.
DetectNext ==
    \/ getCalendarEvents
    \/ detectConflicts
SpecDetect == DetectInit /\ [][DetectNext]_vars

\* The same rows handed to the scheduler's normalizer or to the dashboard's
\* generation entry point.
OptimalNext ==
    \/ Normalize
    \/ Optimal
SpecOptimal == PackSpecInit /\ [][OptimalNext]_vars

----------------------------------------------------------------------------
(* Properties *)

Registered(nid) == notifications[nid] # NoNotification
TimersFor(nid) == {x \in timeouts : x.nid = nid}
Count(s, l) == Cardinality({i \in 1..Len(s) : s[i] = l})

\* C1 (as stated): every arm cycle of a notification id (a call of
\* scheduleTaskStartNotification or scheduleTaskEndNotification, or a snooze
\* re-arm) results in exactly one broadcast: once no trigger of the id is
\* outstanding, the id has been broadcast as many times as it was armed.
C1_ExactlyOneBroadcastPerArm ==
    \A nid \in NIds :
        (Registered(nid) /\ TimersFor(nid) = {}) =>
            hist[nid].broadcasts = hist[nid].arms

\* C1 (as amended): every arm cycle results in at most one broadcast, the one
\* in which delivered goes from false to true, and in exactly one once no
\* trigger of the id is outstanding, unless the cycle was superseded by a
\* later arm or snooze or discarded by cleanup before its broadcast; a timer
\* that fires while delivered is already true broadcasts nothing.
C1_AtMostOneBroadcastPerArmCycle ==
    /\ \A nid \in NIds :
        /\ hist[nid].inCycle <= 1
        /\ hist[nid].broadcasts <= hist[nid].arms
        /\ Registered(nid) =>
              (notifications[nid].delivered <=> hist[nid].inCycle = 1)
        /\ (Registered(nid) /\ TimersFor(nid) = {}) => hist[nid].inCycle = 1
    /\ lastFire.wasDelivered => ~lastFire.broadcast

\* A trigger fired for an id that was armed twice and was already delivered
\* in its current cycle.
C1_Witness ==
    /\ lastFire.wasDelivered
    /\ lastFire.nid \in NIds
    /\ hist[lastFire.nid].arms >= 2
    /\ hist[lastFire.nid].inCycle = 1

\* C2: after a snooze of a notification id the only trigger outstanding for
\* the id is the one the snooze armed, and the id is broadcast at most once
\* in the snooze's cycle, by that trigger, also when the id had been armed
\* more than once before the snooze.
C2_SnoozeCancelsEarlierTriggers ==
    \A nid \in NIds :
        hist[nid].snoozeTimer # 0 =>
            /\ \A x \in TimersFor(nid) : x.h = hist[nid].snoozeTimer
            /\ hist[nid].inCycle <= 1
            /\ hist[nid].inCycle = 1 => hist[nid].bcastBy = hist[nid].snoozeTimer

\* C3: a snooze of m minutes at time t sets scheduled_time to t + m, and the
\* broadcast of the snooze's cycle happens at t + m.
C3_SnoozeRedeliversAtNowPlusMinutes ==
    \A nid \in NIds :
        (hist[nid].snoozeTimer # 0 /\ Registered(nid)) =>
            /\ notifications[nid].scheduledTime = hist[nid].snoozeDue
            /\ hist[nid].inCycle >= 1 => hist[nid].bcastAt = hist[nid].snoozeDue

\* C4: in a broadcast during which listeners unsubscribe, every listener that
\* was subscribed when the broadcast began and was not itself unsubscribed
\* is called exactly once.
C4_UnsubscribeDuringBroadcastSkipsNobody ==
    lastFire.broadcast =>
        \A i \in 1..Len(lastFire.subsBefore) :
            lastFire.subsBefore[i] \notin lastFire.removed =>
                Count(lastFire.called, lastFire.subsBefore[i]) = 1

\* C5: when the reasoning collaborator fails every request,
\* generateDailySchedule returns a non-empty candidate list and does not throw.
C5_FallbackGuarantee ==
    (gen.pc = "done" /\ collaborator = "failing") =>
        (~gen.threw /\ gen.result # <<>>)

\* C6: when the collaborator's reply does not parse, or parses to something
\* with no candidates array, generation returns at least one candidate and
\* raises no error.
C6_UnparseableReplyDegrades ==
    (gen.pc = "done" /\ gen.reply.kind \in
        {"no_text", "not_json", "json_null", "json_no_candidates"}) =>
        (~gen.threw /\ gen.result # <<>>)

Resolved(t) == t.start # Unresolved /\ t.end # Unresolved
Overlap(a, b) == a.start < b.end /\ a.end > b.start
Reported(c, ids) == \E k \in 1..Len(c.conflicts) : ids \subseteq c.conflicts[k]

\* C7: in every candidate of the fallback packer, two distinct tasks with
\* resolved start and end overlap as half-open intervals only if the pair is
\* reported in the candidate's conflicts.
C7_FallbackNoOverlap ==
    pack.pc = "packed" =>
        \A k \in 1..Len(pack.result) :
            LET c == pack.result[k]
                ts == c.schedule.tasks
            IN \A i, j \in 1..Len(ts) :
                (i < j /\ Resolved(ts[i]) /\ Resolved(ts[j]) /\ Overlap(ts[i], ts[j]))
                    => Reported(c, {ts[i].task_id, ts[j].task_id})

\* C8: every task of type fixed has, in every candidate of the fallback
\* packer, the start and end normalization gave it.
C8_FixedTasksNotMoved ==
    pack.pc = "packed" =>
        \A k \in 1..Len(pack.result) :
            LET ts == pack.result[k].schedule.tasks
            IN \A i \in 1..Len(ts) :
                ts[i].type = "fixed" =>
                    \E j \in 1..Len(pack.tasks) :
                        /\ pack.tasks[j].task_id = ts[i].task_id
                        /\ pack.tasks[j].start = ts[i].start
                        /\ pack.tasks[j].end = ts[i].end

\* C9: in every candidate of the fallback packer no task is dropped, no task
\* ends after the end of working hours, and a task left without resolved
\* start and end is named in the candidate's conflicts.
C9_UnfittingTaskReported ==
    pack.pc = "packed" =>
        \A k \in 1..Len(pack.result) :
            LET c == pack.result[k]
                ts == c.schedule.tasks
            IN /\ \A j \in 1..Len(pack.tasks) :
                    \E i \in 1..Len(ts) : ts[i].task_id = pack.tasks[j].task_id
               /\ \A i \in 1..Len(ts) :
                    IF Resolved(ts[i])
                    THEN ts[i].end <= WorkEndMinutes * MsPerMinute
                    ELSE Reported(c, {ts[i].task_id})

\* The rank of a priority label: critical > high > medium > low.
LabelRank(p) ==
    IF p = Label("critical") THEN 4 ELSE IF p = Label("high") THEN 3
    ELSE IF p = Label("medium") THEN 2 ELSE IF p = Label("low") THEN 1 ELSE 0

\* The task normalizeTasks returned for priority row i of the call.
PriorityTaskAt(i) ==
    CHOOSE task \in {pack.tasks[k] : k \in 1..Len(pack.tasks)} :
        task.task_id = "priority_" \o ToString(i - 1)

\* C21: of two priority rows with the same targets and different priority
\* labels, the task of the higher label has a numeric priority_score strictly
\* above the other's.
C21_PriorityMonotonicity ==
    (pack.pc = "normalized" /\ ~pack.threw) =>
        \A i, j \in 1..Len(pack.priority) :
            (/\ pack.priority[i].targets = pack.priority[j].targets
             /\ LabelRank(pack.priority[j].priority) >= 1
             /\ LabelRank(pack.priority[i].priority) > LabelRank(pack.priority[j].priority)) =>
                /\ PriorityTaskAt(i).priority_score.num
                /\ PriorityTaskAt(j).priority_score.num
                /\ PriorityTaskAt(i).priority_score.v > PriorityTaskAt(j).priority_score.v

\* C22: every task normalizeTasks returns has a duration above zero.
C22_PositiveDurations ==
    (pack.pc = "normalized" /\ ~pack.threw) =>
        \A k \in 1..Len(pack.tasks) : pack.tasks[k].duration_minutes > 0

\* C23: no two tasks returned by one call of normalizeTasks share a task_id.
C23_UniqueTaskIds ==
    (pack.pc = "normalized" /\ ~pack.threw) =>
        \A a, b \in 1..Len(pack.tasks) :
            a # b => pack.tasks[a].task_id # pack.tasks[b].task_id

\* Rows of all three kinds were normalized, a malformed course row between
\* two well-formed ones was skipped, and several tasks of a kind were returned.
C23_Witness ==
    /\ pack.pc = "normalized" /\ ~pack.threw
    /\ Len(pack.priority) >= 2
    /\ Len(pack.incomplete) >= 2
    /\ Len(pack.course) >= 2
    /\ ~pack.course[1].day_of_week
    /\ Len(pack.tasks) = Len(pack.course) - 1 + Len(pack.priority) + Len(pack.incomplete)

C26_OptimalAlwaysYieldsCandidate ==
    (pack.pc = "optimal"
        /\ pack.reply.kind \in FailingReplies \cup {"no_text", "not_json", "json_null",
                                                    "json_no_candidates"}) =>
        Len(pack.result) >= 1

\* C27: Delivered is terminal: a registered notification whose delivered flag
\* is true does not return to pending, unless its id is armed anew by
\* scheduleTaskStartNotification or scheduleTaskEndNotification.
C27_DeliveredIsTerminal ==
    [][\A nid \in NIds :
          (/\ notifications[nid] # NoNotification
           /\ notifications[nid].delivered
           /\ notifications'[nid] # NoNotification
           /\ ~notifications'[nid].delivered) =>
              /\ hist'[nid].arms = hist[nid].arms + 1
              /\ hist'[nid].snoozeTimer = 0]_vars

\* C28: scheduleTaskStartNotification registers the reminder for start_time
\* minus 5 minutes, pending, and arms one trigger for it after
\* max(0, reminder_time - now); a due trigger runs before time passes, and when
\* it runs on the pending reminder the reminder is broadcast, so a reminder
\* whose time has passed at arming is broadcast at the arming instant.
C28_StartReminderArming ==
    [][/\ \A t \in TaskIds :
            LET nid == StartId(t)
            IN (hist'[nid].arms = hist[nid].arms + 1 /\ hist'[nid].snoozeTimer = 0) =>
                 /\ notifications'[nid] # NoNotification
                 /\ notifications'[nid].type = "task_start"
                 /\ ~notifications'[nid].delivered
                 /\ notifications'[nid].scheduledTime + ReminderLeadMinutes * MsPerMinute
                        \in StartTimes
                 /\ \E x \in timeouts' \ timeouts :
                       /\ timeouts' \ timeouts = {x}
                       /\ x.nid = nid
                       /\ x.h = timers'[nid]
                       /\ x.delay >= 0
                       /\ x.delay = (IF notifications'[nid].scheduledTime > now
                                     THEN notifications'[nid].scheduledTime - now ELSE 0)
                       /\ x.due = now + x.delay
       /\ (now' # now) => \A x \in timeouts : x.due > now
       /\ (lastFire' # lastFire /\ notifications[lastFire'.nid] # NoNotification
              /\ ~notifications[lastFire'.nid].delivered) =>
            /\ notifications'[lastFire'.nid].delivered
            /\ hist'[lastFire'.nid].broadcasts = hist[lastFire'.nid].broadcasts + 1
            /\ hist'[lastFire'.nid].bcastAt = now]_vars

\* A start reminder armed after its time had passed was broadcast by its own
\* trigger at the instant of arming.
C28_Witness ==
    \E t \in TaskIds :
        /\ notifications[StartId(t)] # NoNotification
        /\ notifications[StartId(t)].delivered
        /\ hist[StartId(t)].snoozeTimer = 0
        /\ hist[StartId(t)].arms = 1
        /\ hist[StartId(t)].bcastBy = timers[StartId(t)]
        /\ hist[StartId(t)].bcastAt > notifications[StartId(t)].scheduledTime

\* C29: an applySchedule call has requested a calendar event for exactly the
\* tasks of the candidate that are not fixed and a task record due at its end
\* for every task, and it arms one start and one end notification per task.
C29_ApplyRequestsAndArms ==
    [][/\ (lastApply' # lastApply) =>
            LET ts == lastApply'.candidate.schedule.tasks
            IN /\ \A i \in 1..Len(ts) :
                    /\ ~ts[i].fixed <=>
                           (\E k \in 1..Len(lastApply'.events) :
                                lastApply'.events[k] = ts[i].task_id)
                    /\ \E k \in 1..Len(lastApply'.records) :
                           lastApply'.records[k] =
                               [task_id |-> ts[i].task_id, due |-> ts[i].end]
               /\ Len(lastApply'.events) <= Len(ts)
               /\ Len(lastApply'.records) = Len(ts)
       /\ (Len(applyCalls') > Len(applyCalls)
             \/ (lastApply' # lastApply /\ lastApply'.outcome = "threw")) =>
            LET ts == IF Len(applyCalls') > Len(applyCalls)
                      THEN applyCalls'[Len(applyCalls')].schedule.tasks
                      ELSE lastApply'.candidate.schedule.tasks
            IN \A i \in 1..Len(ts) :
                 /\ hist'[StartId(ts[i].task_id)].arms
                        = hist[StartId(ts[i].task_id)].arms + 1
                 /\ hist'[EndId(ts[i].task_id)].arms
                        = hist[EndId(ts[i].task_id)].arms + 1]_vars

\* C10: when applySchedule(c) has returned successfully the current schedule
\* is c.schedule, whatever schedule was current before.
C10_ApplyReplacesCurrentSchedule ==
    lastApply.outcome = "returned" =>
        currentSchedule = lastApply.candidate.schedule

\* An apply returned while a schedule with tasks was current, and the
\* current schedule is now a different one.
C10_Witness ==
    /\ lastApply.outcome = "returned"
    /\ lastApply.prior.tasks # <<>>
    /\ currentSchedule # lastApply.prior

IdsOf(schedule) ==
    UNION {{StartId(schedule.tasks[i].task_id), EndId(schedule.tasks[i].task_id)} :
              i \in 1..Len(schedule.tasks)}

\* C12: when a candidate is applied again while its schedule is the current
\* one, the state is as after applying it once: the same current schedule,
\* the same notification ids registered, and no additional broadcast for any
\* of its tasks (each of its notifications has been broadcast at most once).
C12_ReapplyIsIdempotent ==
    (lastApply.outcome = "returned" /\ lastApply.prior = lastApply.candidate.schedule
        /\ lastApply.prior # NoSchedule) =>
        /\ currentSchedule = lastApply.candidate.schedule
        /\ {nid \in NIds : Registered(nid)} = IdsOf(currentSchedule)
        /\ \A nid \in IdsOf(currentSchedule) : hist[nid].broadcasts <= 1


\* The pairs (task i, fetched event j) of the run whose intervals overlap:
\* start_a < end_b and end_a > start_b.
CollidingPairs ==
    {p \in (1..Len(detect.tasks)) \X (1..Len(detect.existingEvents)) :
        /\ detect.tasks[p[1]].start # Unresolved
        /\ detect.tasks[p[1]].end # Unresolved
        /\ detect.tasks[p[1]].start < detect.existingEvents[p[2]].end
        /\ detect.tasks[p[1]].end > detect.existingEvents[p[2]].start}

\* C30: detectConflicts reports a pair of a task and an external event exactly
\* when start_a < end_b and end_a > start_b, so that intervals which only touch
\* at an endpoint are not reported, and it reports each colliding pair exactly
\* once: every sentence occurs as often as there are colliding pairs it names.
C30_HalfOpenOverlapOncePerPair ==
    detect.pc = "done" =>
        /\ Len(detect.conflicts) = Cardinality(CollidingPairs)
        /\ \A i \in 1..Len(detect.tasks), j \in 1..Len(detect.existingEvents) :
              LET r == ConflictReport(detect.tasks[i], detect.existingEvents[j])
              IN Count(detect.conflicts, r)
                   = Cardinality({p \in CollidingPairs :
                        ConflictReport(detect.tasks[p[1]],
                                       detect.existingEvents[p[2]]) = r})

\* A run in which one task overlaps two events, and another task ends at the
\* instant an event starts.
C30_Witness ==
    /\ detect.pc = "done"
    /\ Len(detect.conflicts) = 2
    /\ Len(detect.tasks) = 2 /\ Len(detect.existingEvents) = 2
    /\ \E i \in 1..2 : \A j \in 1..2 : <<i, j>> \in CollidingPairs
    /\ \E i, j \in 1..2 :
          detect.tasks[i].end = detect.existingEvents[j].start

\* The unordered pairs of tasks of the run's schedule whose resolved intervals
\* overlap.
CollidingTaskPairs ==
    {p \in (1..Len(detect.tasks)) \X (1..Len(detect.tasks)) :
        /\ p[1] < p[2]
        /\ TimeOverlap(detect.tasks[p[1]].start, detect.tasks[p[1]].end,
                       detect.tasks[p[2]].start, detect.tasks[p[2]].end)}

\* C31: conflict detection reports every overlap between two tasks of the
\* same candidate, each unordered pair once: the result holds, besides the
\* sentences for the task/event pairs, one sentence naming both tasks of
\* every overlapping pair of tasks.
C31_TaskPairsReported ==
    detect.pc = "done" =>
        /\ Len(detect.conflicts)
              = Cardinality(CollidingPairs) + Cardinality(CollidingTaskPairs)
        /\ \A p \in CollidingTaskPairs :
              \E k \in 1..Len(detect.conflicts) :
                  {detect.conflicts[k].task, detect.conflicts[k].event}
                      = {detect.tasks[p[1]].name, detect.tasks[p[2]].name}

\* A task of a candidate overlaps an event the calendar holds.
OverlapsCalendar(candidate) ==
    \E i \in 1..Len(candidate.schedule.tasks), j \in 1..Len(detect.calendar) :
        TimeOverlap(candidate.schedule.tasks[i].start, candidate.schedule.tasks[i].end,
                    detect.calendar[j].start, detect.calendar[j].end)

\* C32: every candidate returned by generation was run through the conflict
\* detector against the events of the calendar: a candidate with a resolved
\* task that overlaps an existing event has a non-empty conflicts list and a
\* score below the one its generation path gives a conflict-free candidate.
C32_GeneratedCandidatesAreChecked ==
    pack.pc \in {"packed", "generated"} =>
        \A k \in 1..Len(pack.result) :
            OverlapsCalendar(pack.result[k]) =>
                /\ pack.result[k].conflicts # <<>>
                /\ pack.result[k].score
                      < (IF pack.result[k].id = "fallback_1"
                         THEN FallbackScore ELSE AICandidateScore)

\* The task list in another order.
Permuted(tasks, f) == [i \in 1..Len(tasks) |-> tasks[f[i]]]

\* C33: the packer's order is total (priority_score descending, ties broken by
\* fixed first, due date, task_id), so the candidate it produces is the same
\* for every permutation of the task list it was given.
C33_PackerIgnoresInputOrder ==
    pack.pc = "packed" =>
        \A f \in Permutations(1..Len(pack.tasks)) :
            generateFallbackSchedule(Permuted(pack.tasks, f)) = pack.result

\* C34: when the reasoning collaborator fails and generateDailySchedule
\* returns, what it returns is the candidate of the deterministic packer, and
\* that candidate holds every normalized task exactly once.
C34_FailureYieldsPackedCandidate ==
    (gen.pc = "done" /\ collaborator = "failing" /\ ~gen.threw) =>
        /\ gen.result = generateFallbackSchedule(gen.tasks)
        /\ \A i \in 1..Len(gen.tasks) :
              Cardinality({k \in 1..Len(gen.result[1].schedule.tasks) :
                  gen.result[1].schedule.tasks[k].task_id = gen.tasks[i].task_id}) = 1

\* C35: candidate generation returns exactly the configured number of
\* candidates, three, on every path: with the collaborator's candidates and
\* with the packer's.
C35_ConfiguredCandidateCount ==
    (gen.pc = "done" /\ ~gen.threw) => Len(gen.result) = CandidateCount

\* C36: at any time at most one delayed trigger is outstanding per
\* notification id, and it is the one recorded in the timers table; arming an
\* id that is already armed cancels the earlier trigger.
C36_OneTriggerPerId ==
    \A nid \in NIds :
        /\ Cardinality(TimersFor(nid)) <= 1
        /\ \A x \in TimersFor(nid) : timers[nid] = x.h

\* C37: no notification is broadcast before its current scheduled time: at
\* every broadcast of an id, the scheduled time its registry entry holds has
\* been reached.
C37_NoBroadcastBeforeScheduledTime ==
    [][\A nid \in NIds :
          hist'[nid].broadcasts > hist[nid].broadcasts =>
              notifications[nid].scheduledTime <= now]_vars

\* C38: once an applySchedule call has ended, by returning or by throwing,
\* and none is in flight, every pending task_start or task_end notification
\* refers to a task of the current schedule.
C38_ArmedOnlyForCurrentSchedule ==
    (applyCalls = <<>> /\ lastApply.outcome # None) =>
        \A nid \in NIds :
            (/\ notifications[nid] # NoNotification
             /\ notifications[nid].type \in {"task_start", "task_end"}
             /\ ~notifications[nid].delivered) =>
                \E i \in 1..Len(currentSchedule.tasks) :
                    currentSchedule.tasks[i].task_id = notifications[nid].taskId

\* C39: choosing Start Now on a start notification records no completion
\* outcome: as long as no end notification has been shown, so that every
\* action taken was taken on a start notification, handleTaskCompletion has
\* not run, no completion log is stored and no feedback is registered.
C39_StartNowRecordsNoOutcome ==
    (\A t \in TaskIds \cup SheetTaskIds : hist[EndId(t)].broadcasts = 0) =>
        /\ completion.calls = 0
        /\ completion.logs = <<>>
        /\ \A t \in TaskIds, at \in CompletionInstants :
              notifications[FeedbackId(t, at)] = NoNotification

\* C40: for one end notification, completion actions invoked more than once
\* produce at most one incomplete-task record and at most one completion
\* outcome for its task: while no start notification has been shown, so that
\* every action was taken on the end notification of the task.
C40_CompletionActionsAreIdempotent ==
    \A t \in TaskIds :
        (\A u \in TaskIds \cup SheetTaskIds : hist[StartId(u)].broadcasts = 0) =>
            /\ Cardinality({k \in 1..Len(completion.records) :
                               completion.records[k].taskId = t}) <= 1
            /\ completion.calls <= 1


====
